---- MODULE Spec2Model ----
(***************************************************************************)
(* RabbitVCS: the context-menu item framework (lib/contextmenuitems.py)    *)
(* and the Git branch manager dialog (ui/branches.py).                     *)
(*                                                                         *)
(* Python strings are modelled as sequences of one-character strings, so   *)
(* that split, lower, basename and string concatenation are computed and   *)
(* not assumed.                                                            *)
(***************************************************************************)
EXTENDS Integers, Sequences, FiniteSets, TLC

VARIABLES
    \* ---- menu items (contextmenuitems.py, class MenuItem)
    conditions,     \* the ContextMenuConditions-like helper object
    callbacks,      \* the ContextMenuCallbacks-like helper object
    cls,            \* the MenuItem subclass being instantiated
    item,           \* the instance fields after __init__ (or NoItem)
    shown,          \* the last show() call of the item
    magic,          \* the last make_magic_id() call of the item
    \* ---- get_ignore_list_items (contextmenuitems.py)
    paths,          \* the selected paths handed to get_ignore_list_items
    ignore_items,   \* the list it returned
    ignore_pc,      \* "start" before the call, "done" after it
    \* ---- GitBranchManager (ui/branches.py): the fields of self and its widgets
    state,              \* self.state: STATE_ADD or STATE_EDIT
    selected_branch,    \* self.selected_branch: a branch record or NoBranch (None)
    branch_list,        \* self.branch_list: the records of the last load
    rows,               \* self.items_treeview: its rows [track_str, name]
    selection,          \* the indices of the selected rows of items_treeview
    branch_entry,       \* text of self.branch_entry
    start_point_entry,  \* text of self.start_point_entry
    track_checkbox,     \* self.track_checkbox is active
    checkout_active,    \* self.checkout_checkbox is active
    checkout_sensitive, \* self.checkout_checkbox is sensitive
    save_label,         \* label of self.save_button
    revision_label,     \* text of self.revision_label (the detail fields)
    delete_sensitive,   \* the "delete" widget is sensitive
    visible,            \* the detail containers that are shown
    detail_label,       \* markup of the "detail_label" widget
    \* ---- the repository behind self.git
    git_branches,       \* its branches, in branch_list() order
    git_tracking,       \* the branch HEAD is on
    \* ---- what the last handler did
    calls,              \* the Git calls it made, in order
    raised,             \* "" if it returned, else the exception that left it
    ev                  \* the handler, and what it read when it was entered

menuVars == <<conditions, callbacks, cls, item, shown, magic>>

ignoreVars == <<paths, ignore_items, ignore_pc>>

branchVars == <<state, selected_branch, branch_list, rows, selection, branch_entry,
                start_point_entry, track_checkbox, checkout_active,
                checkout_sensitive, save_label, revision_label, delete_sensitive,
                visible, detail_label, git_branches, git_tracking, calls, raised, ev>>

vars == <<menuVars, ignoreVars, branchVars>>

(***************************************************************************)
(* Bounds                                                                  *)
(***************************************************************************)
MaxMagic == 2

MaxPaths == 3

(***************************************************************************)
(* Python str primitives                                                   *)
(***************************************************************************)
UpperChars == <<"A","B","C","D","E","F","G","H","I","J","K","L","M",
                "N","O","P","Q","R","S","T","U","V","W","X","Y","Z">>

LowerChars == <<"a","b","c","d","e","f","g","h","i","j","k","l","m",
                "n","o","p","q","r","s","t","u","v","w","x","y","z">>

lower_char(c) ==
    IF \E i \in DOMAIN UpperChars : UpperChars[i] = c
    THEN LowerChars[CHOOSE i \in DOMAIN UpperChars : UpperChars[i] = c]
    ELSE c

\* str.lower()
lower(s) == [i \in 1..Len(s) |-> lower_char(s[i])]

\* str.find(sep): the least index at which sep occurs in s, 0 when it does not
find(s, sep) ==
    LET hits == {i \in 1..(Len(s) - Len(sep) + 1) :
                    SubSeq(s, i, i + Len(sep) - 1) = sep}
    IN  IF hits = {} THEN 0
        ELSE CHOOSE i \in hits : \A j \in hits : i <= j

\* str.split(sep): left to right, non-overlapping occurrences of sep
RECURSIVE split(_, _)
split(s, sep) ==
    LET i == find(s, sep)
    IN  IF i = 0 THEN <<s>>
        ELSE <<SubSeq(s, 1, i - 1)>> \o split(SubSeq(s, i + Len(sep), Len(s)), sep)

Digits == <<"0","1","2","3","4","5","6","7","8","9">>

\* str(n) for a non-negative int
RECURSIVE int_to_str(_)
int_to_str(n) ==
    IF n < 10 THEN <<Digits[n + 1]>>
    ELSE int_to_str(n \div 10) \o <<Digits[(n % 10) + 1]>>

(***************************************************************************)
(* Values passed as id_magic: None, an int, or a str                       *)
(***************************************************************************)
MagicNone == [t |-> "none", i |-> 0, s |-> <<>>]

MagicInt(n) == [t |-> "int", i |-> n, s |-> <<>>]

MagicStr(x) == [t |-> "str", i |-> 0, s |-> x]

MagicValues ==
    {MagicNone} \cup {MagicInt(n) : n \in 0..MaxMagic}
                \cup {MagicStr(x) : x \in {<<>>, <<"1">>, <<"s","e","p">>}}

\* Python truth value of an id_magic argument
truthy(v) ==
    CASE v.t = "none" -> FALSE
      [] v.t = "int"  -> v.i # 0
      [] v.t = "str"  -> v.s # <<>>

\* str(id_magic)
str(v) ==
    CASE v.t = "none" -> <<"N","o","n","e">>
      [] v.t = "int"  -> int_to_str(v.i)
      [] v.t = "str"  -> v.s

(***************************************************************************)
(* Values given as callback_args / condition_args: a tuple of values, or   *)
(* (as "(path)" is in Python) a bare str.  Unpacking with * yields the     *)
(* elements of a tuple and the one-character strings of a str.             *)
(***************************************************************************)
Tuple(elems) == [t |-> "tuple", v |-> elems]

Str(chars) == [t |-> "str", v |-> chars]

\* the positional arguments of f(*args)
star(args) ==
    IF args.t = "tuple" THEN args.v
    ELSE [i \in 1..Len(args.v) |-> Str(<<args.v[i]>>)]

(***************************************************************************)
(* Helper objects: an object is its name and its attributes; an attribute  *)
(* is either plain data or a method.                                       *)
(***************************************************************************)
AttrNames == { <<"d","e","b","u","g">>,
               <<"d","e","b","u","g","_","s","h","e","l","l">>,
               <<"_","i","m","p","o","r","t">> }

AttrTables == UNION { [names -> {"data", "method"}] : names \in SUBSET AttrNames }

HelperObjects(objname) == { [name |-> objname, attrs |-> a] : a \in AttrTables }

hasattr(object, name) == name \in DOMAIN object.attrs

\* getattr(object, name), for an attribute the object has
getattr(object, name) ==
    [obj |-> object.name, name |-> name, callable |-> object.attrs[name] = "method"]

callable(attr) == attr.callable

None == [obj |-> "None", name |-> <<>>, callable |-> FALSE]

(***************************************************************************)
(* class MenuItem                                                          *)
(***************************************************************************)
IDENTIFIER_SEPARATOR == <<":", ":">>

\* the value None of the class attributes callback_name and condition_name
NoName == <<"None">>

default_condition == [obj |-> "MenuItem", name |-> <<"default_condition">>, callable |-> TRUE]

\* a variant that forgets the conversion to lowercase
make_default_name_keeps_case(identifier) ==
    LET parts == split(identifier, IDENTIFIER_SEPARATOR)
    IN  parts[Len(parts)]

make_default_name(identifier) ==
    LET parts == split(identifier, IDENTIFIER_SEPARATOR)
    IN  lower(parts[Len(parts)])

\* a variant that does not test callable(attr)
_get_function_any_attribute(object, name) ==
    IF hasattr(object, name) THEN getattr(object, name) ELSE None

_get_function(object, name) ==
    IF hasattr(object, name)
    THEN LET attr == getattr(object, name)
         IN  IF callable(attr) THEN attr ELSE None
    ELSE None

NoSignals == [k \in {} |-> [callback |-> None, args |-> Tuple(<<>>)]]

\* a variant that raises the found_* flags whether or not a function was found
init_flags_always_set(c, conds, cbs) ==
    LET default_name   == make_default_name(c.identifier)
        callback_name  == IF c.callback_name = NoName THEN default_name
                          ELSE c.callback_name
        callback       == _get_function(cbs, callback_name)
        condition_name == IF c.condition_name = NoName THEN default_name
                          ELSE c.condition_name
        condition      == _get_function(conds, condition_name)
    IN  [ identifier      |-> c.identifier,
          callback_name   |-> callback_name,
          callback_args   |-> c.callback_args,
          condition_name  |-> condition_name,
          condition_args  |-> c.condition_args,
          signals         |-> IF callback # None
                              THEN [k \in {"activate"} |->
                                      [callback |-> callback, args |-> c.callback_args]]
                              ELSE NoSignals,
          found_callback  |-> TRUE,
          condition       |-> [callback |-> IF condition # None THEN condition
                                            ELSE default_condition,
                               args     |-> c.condition_args],
          found_condition |-> TRUE,
          lookups         |-> << <<cbs.name, callback_name>>,
                                 <<conds.name, condition_name>> >> ]

\* MenuItem.__init__(self, conditions, callbacks) on an instance of class c;
\* lookups records the _get_function calls in the order they are made
__init__(c, conds, cbs) ==
    LET default_name   == make_default_name(c.identifier)
        callback_name  == IF c.callback_name = NoName THEN default_name
                          ELSE c.callback_name
        callback       == _get_function(cbs, callback_name)
        condition_name == IF c.condition_name = NoName THEN default_name
                          ELSE c.condition_name
        condition      == _get_function(conds, condition_name)
    IN  [ identifier      |-> c.identifier,
          callback_name   |-> callback_name,
          callback_args   |-> c.callback_args,
          condition_name  |-> condition_name,
          condition_args  |-> c.condition_args,
          signals         |-> IF callback # None
                              THEN [k \in {"activate"} |->
                                      [callback |-> callback, args |-> c.callback_args]]
                              ELSE NoSignals,
          found_callback  |-> callback # None,
          condition       |-> [callback |-> IF condition # None THEN condition
                                            ELSE default_condition,
                               args     |-> c.condition_args],
          found_condition |-> condition # None,
          lookups         |-> << <<cbs.name, callback_name>>,
                                 <<conds.name, condition_name>> >> ]

\* Calling a function object with positional arguments: default_condition returns
\* False whatever it is given; a helper method returns its own result for them
call(fn, positional) ==
    [fn |-> fn, args |-> positional,
     value |-> IF fn = default_condition THEN "False" ELSE "result"]

\* MenuItem.show(self)
show(self) == call(self.condition.callback, star(self.condition.args))

\* a variant that appends str(id_magic) without the "-"
make_magic_id_no_dash(self, id_magic) ==
    IF truthy(id_magic)
    THEN self.identifier \o str(id_magic)
    ELSE self.identifier

\* MenuItem.make_magic_id(self, id_magic = None)
make_magic_id(self, id_magic) ==
    IF truthy(id_magic)
    THEN self.identifier \o <<"-">> \o str(id_magic)
    ELSE self.identifier

(***************************************************************************)
(* MenuItem subclasses: the class attributes a subclass sets               *)
(***************************************************************************)
RabbitVCS == <<"R","a","b","b","i","t","V","C","S">>

Class(identifier, callback_name, callback_args, condition_name, condition_args) ==
    [ identifier     |-> identifier,
      callback_name  |-> callback_name,
      callback_args  |-> callback_args,
      condition_name |-> condition_name,
      condition_args |-> condition_args ]

\* the example of the MenuItem docstring
MenuPerformMagic ==
    Class(RabbitVCS \o IDENTIFIER_SEPARATOR
            \o <<"P","e","r","f","o","r","m","_","M","a","g","i","c">>,
          NoName, Tuple(<<>>), NoName, Tuple(<<>>))

MenuDebug ==
    Class(RabbitVCS \o IDENTIFIER_SEPARATOR \o <<"D","e","b","u","g">>,
          NoName, Tuple(<<>>), NoName, Tuple(<<>>))

MenuDebugShell ==
    Class(RabbitVCS \o IDENTIFIER_SEPARATOR
            \o <<"D","e","b","u","g","_","S","h","e","l","l">>,
          NoName, Tuple(<<>>), <<"d","e","b","u","g">>, Tuple(<<>>))

MenuImport ==
    Class(RabbitVCS \o IDENTIFIER_SEPARATOR \o <<"I","m","p","o","r","t">>,
          <<"_","i","m","p","o","r","t">>, Tuple(<<>>),
          <<"_","i","m","p","o","r","t">>, Tuple(<<>>))

\* subclasses a caller may define: an identifier without a separator, one with
\* two separators, and one with positional arguments
MenuPlain ==
    Class(<<"D","e","b","u","g">>, NoName, Tuple(<<>>), NoName, Tuple(<<>>))

MenuNested ==
    Class(RabbitVCS \o IDENTIFIER_SEPARATOR \o <<"S","u","b">> \o IDENTIFIER_SEPARATOR
            \o <<"D","e","b","u","g","_","S","h","e","l","l">>,
          NoName, Tuple(<< Str(<<"x">>) >>),
          NoName, Tuple(<< Str(<<"x">>), Str(<<"y">>) >>))

Classes == {MenuPerformMagic, MenuDebug, MenuDebugShell, MenuImport, MenuPlain, MenuNested}

(***************************************************************************)
(* The menu-item specification: a pair of helper objects is given, a class *)
(* is instantiated, and the instance is asked show() and make_magic_id().  *)
(***************************************************************************)
NoClass == Class(<<>>, NoName, Tuple(<<>>), NoName, Tuple(<<>>))

NoItem == [ identifier |-> <<>>, callback_name |-> <<>>, callback_args |-> Tuple(<<>>),
            condition_name |-> <<>>, condition_args |-> Tuple(<<>>),
            signals |-> NoSignals, found_callback |-> FALSE,
            condition |-> [callback |-> None, args |-> Tuple(<<>>)],
            found_condition |-> FALSE, lookups |-> <<>> ]

NotShown == [fn |-> None, args |-> <<>>, value |-> "not called"]

NoMagic == [called |-> FALSE, arg |-> MagicNone, result |-> <<>>]

\* no branch manager is open
IdleBranch ==
    /\ state = 0
    /\ selected_branch = [name |-> "", sha |-> ""]
    /\ branch_list = <<>>
    /\ rows = <<>>
    /\ selection = {}
    /\ branch_entry = ""
    /\ start_point_entry = ""
    /\ track_checkbox = FALSE
    /\ checkout_active = FALSE
    /\ checkout_sensitive = FALSE
    /\ save_label = ""
    /\ revision_label = ""
    /\ delete_sensitive = FALSE
    /\ visible = {}
    /\ detail_label = ""
    /\ git_branches = <<>>
    /\ git_tracking = ""
    /\ calls = <<>>
    /\ raised = ""
    /\ ev = [name |-> "", mode |-> 0, text |-> "", start |-> "", old |-> "",
             checkout |-> FALSE, selected |-> <<>>, confirm |-> 0, key |-> ""]

\* get_ignore_list_items is not in use
IdleIgnore ==
    /\ paths = <<>>
    /\ ignore_items = <<>>
    /\ ignore_pc = "idle"

InitMenu ==
    /\ conditions \in HelperObjects("conditions")
    /\ callbacks \in HelperObjects("callbacks")
    /\ cls = NoClass
    /\ item = NoItem
    /\ shown = NotShown
    /\ magic = NoMagic
    /\ IdleIgnore
    /\ IdleBranch

\* item = SomeMenuClass(conditions, callbacks)
Construct ==
    /\ item = NoItem
    /\ \E c \in Classes :
         /\ cls' = c
         /\ item' = __init__(c, conditions, callbacks)
    /\ UNCHANGED <<conditions, callbacks, shown, magic, ignoreVars, branchVars>>

\* item.show()
Show ==
    /\ item # NoItem
    /\ shown' = show(item)
    /\ UNCHANGED <<conditions, callbacks, cls, item, magic, ignoreVars, branchVars>>

\* item.make_magic_id(id_magic), as make_action and make_nautilus_menu_item call it
MakeMagicId ==
    /\ item # NoItem
    /\ \E m \in MagicValues :
         magic' = [called |-> TRUE, arg |-> m, result |-> make_magic_id(item, m)]
    /\ UNCHANGED <<conditions, callbacks, cls, item, shown, ignoreVars, branchVars>>

\* the instance is dropped
Discard ==
    /\ item # NoItem
    /\ cls' = NoClass
    /\ item' = NoItem
    /\ shown' = NotShown
    /\ magic' = NoMagic
    /\ UNCHANGED <<conditions, callbacks, ignoreVars, branchVars>>

NextMenu == Construct \/ Show \/ MakeMagicId \/ Discard

SpecMenu == InitMenu /\ [][NextMenu]_vars

(***************************************************************************)
(* Claims about the menu items                                             *)
(***************************************************************************)
\* the part of s after the last occurrence of "::", all of s when there is none
AfterLastSeparator(s) ==
    LET at == {i \in 1..(Len(s) - 1) : s[i] = ":" /\ s[i + 1] = ":"}
    IN  IF at = {} THEN s
        ELSE SubSeq(s, (CHOOSE i \in at : \A j \in at : j <= i) + 2, Len(s))

\* the name a class attribute (callback_name or condition_name) resolves to
ResolvedName(class_name, identifier) ==
    IF class_name # NoName THEN class_name
    ELSE lower(AfterLastSeparator(identifier))

\* whether the helper object has a callable attribute of that name
HasCallable(object, name) ==
    /\ name \in DOMAIN object.attrs
    /\ object.attrs[name] = "method"

BoundMethod(object, name) == [obj |-> object.name, name |-> name, callable |-> TRUE]

\* C1: construction looks the callback up on the callbacks object under the
\* class's callback_name when the class sets one, and otherwise under the part
\* of the identifier after the last "::" in lowercase; the condition is looked
\* up on the conditions object in the same way, using condition_name.
C1_LookupNames ==
    item # NoItem =>
        item.lookups =
            << <<"callbacks", ResolvedName(cls.callback_name, cls.identifier)>>,
               <<"conditions", ResolvedName(cls.condition_name, cls.identifier)>> >>

\* the docstring's example: "RabbitVCS::Perform_Magic" -> "perform_magic"
C1_Witness ==
    /\ cls = MenuPerformMagic
    /\ item # NoItem
    /\ item.lookups[1][2] = <<"p","e","r","f","o","r","m","_","m","a","g","i","c">>
    /\ item.lookups[2][2] = <<"p","e","r","f","o","r","m","_","m","a","g","i","c">>

\* C2: show() returns False when the conditions object has no callable
\* attribute under the item's resolved condition name (missing, or present but
\* not callable); otherwise it returns the result of calling that attribute
\* with the item's condition_args.
C2_ShowResult ==
    shown # NotShown =>
        IF HasCallable(conditions, item.condition_name)
        THEN shown = [fn    |-> BoundMethod(conditions, item.condition_name),
                      args  |-> star(cls.condition_args),
                      value |-> "result"]
        ELSE shown.value = "False"

\* show() on an item whose condition attribute is present but not callable
C2_Witness ==
    /\ shown # NotShown
    /\ item.condition_name \in DOMAIN conditions.attrs
    /\ conditions.attrs[item.condition_name] = "data"
    /\ shown.value = "False"

\* C3: after construction signals has an "activate" entry iff the callbacks
\* object has a callable attribute under the resolved callback name (and the
\* entry then holds that attribute and callback_args); found_callback is True
\* exactly when the entry exists, found_condition exactly when a condition
\* callable was found.
C3_SignalsAndFlags ==
    item # NoItem =>
        /\ ("activate" \in DOMAIN item.signals)
              <=> HasCallable(callbacks, item.callback_name)
        /\ item.found_callback <=> ("activate" \in DOMAIN item.signals)
        /\ item.found_condition <=> HasCallable(conditions, item.condition_name)
        /\ "activate" \in DOMAIN item.signals =>
              item.signals["activate"] =
                  [callback |-> BoundMethod(callbacks, item.callback_name),
                   args     |-> cls.callback_args]

\* an item whose callback attribute exists but is not callable: nothing assigned
C3_Witness ==
    /\ item # NoItem
    /\ item.callback_name \in DOMAIN callbacks.attrs
    /\ callbacks.attrs[item.callback_name] = "data"
    /\ DOMAIN item.signals = {}
    /\ ~item.found_callback
    /\ item.found_condition

\* C6 as stated: make_magic_id returns identifier + "-" + str(id_magic) for every
\* id_magic that is passed in and the bare identifier when none is passed, so
\* two different id_magic values always give two different identifiers.
C6_AsStated ==
    magic.called =>
        /\ magic.arg # MagicNone =>
              magic.result = item.identifier \o <<"-">> \o str(magic.arg)
        /\ magic.arg = MagicNone => magic.result = item.identifier
        /\ \A m \in MagicValues :
              m # magic.arg => make_magic_id(item, m) # magic.result

\* C6 amended: make_magic_id returns identifier + "-" + str(id_magic) for every
\* id_magic that is true in Python, and the bare identifier when none is passed
\* or the value passed is false (0, ""); two id_magic values give different
\* identifiers when exactly one of them is true, or both are and their str()
\* differ.
C6_TruthyMagic ==
    magic.called =>
        /\ truthy(magic.arg) =>
              magic.result = item.identifier \o <<"-">> \o str(magic.arg)
        /\ ~truthy(magic.arg) => magic.result = item.identifier
        /\ \A m \in MagicValues :
              \/ truthy(m) # truthy(magic.arg)
              \/ truthy(m) /\ truthy(magic.arg) /\ str(m) # str(magic.arg)
              => make_magic_id(item, m) # magic.result

\* make_magic_id(0): an id_magic that is passed in and yet leaves the identifier bare
C6_Witness ==
    /\ magic.called
    /\ magic.arg = MagicInt(0)
    /\ magic.result = item.identifier

(***************************************************************************)
(* get_ignore_list_items(paths)                                            *)
(***************************************************************************)
\* str.rfind(c): the greatest index at which the character c occurs, 0 if none
rfind(s, c) ==
    LET at == {i \in 1..Len(s) : s[i] = c}
    IN  IF at = {} THEN 0 ELSE CHOOSE i \in at : \A j \in at : j <= i

\* os.path.basename(path): what follows the last "/"
basename_of(path) == SubSeq(path, rfind(path, "/") + 1, Len(path))

\* os.path.splitext(path)[1]: from the last "." of the last component, unless
\* only dots precede it in that component
splitext_ext(path) ==
    LET sepIndex == rfind(path, "/")
        dotIndex == rfind(path, ".")
    IN  IF dotIndex > sepIndex
           /\ \E k \in (sepIndex + 1)..(dotIndex - 1) : path[k] # "."
        THEN SubSeq(path, dotIndex, Len(path))
        ELSE <<>>

\* rabbitvcs.lib.helper.get_file_extension(path)
get_file_extension(path) == splitext_ext(path)

IGNORE_BY_FILENAME ==
    <<"i","g","n","o","r","e","_","b","y","_","f","i","l","e","n","a","m","e">>

IGNORE_BY_FILE_EXTENSION ==
    <<"i","g","n","o","r","e","_","b","y","_","f","i","l","e","_",
      "e","x","t","e","n","s","i","o","n">>

IgnoreByFileName == <<"I","g","n","o","r","e","B","y","F","i","l","e","N","a","m","e">>

\* class MenuIgnoreFilenameClass(MenuItem), as the class statement evaluates it
MenuIgnoreFilenameClass(key, basename, path) ==
    [ identifier     |-> RabbitVCS \o IDENTIFIER_SEPARATOR \o key,
      label          |-> basename,
      callback_name  |-> IGNORE_BY_FILENAME,
      callback_args  |-> Str(path),
      condition_name |-> IGNORE_BY_FILENAME,
      condition_args |-> Str(path) ]

\* class MenuIgnoreFileExtClass(MenuItem), as the class statement evaluates it
MenuIgnoreFileExtClass(key, ext_str, path, extension) ==
    [ identifier     |-> RabbitVCS \o IDENTIFIER_SEPARATOR \o key,
      label          |-> ext_str,
      callback_name  |-> IGNORE_BY_FILE_EXTENSION,
      callback_args  |-> Tuple(<<Str(path), Str(extension)>>),
      condition_name |-> IGNORE_BY_FILE_EXTENSION,
      condition_args |-> Tuple(<<Str(path), Str(extension)>>) ]

\* an element (class, None) of ignore_items
Entry(class) == [class |-> class, submenu |-> "None"]

InList(x, list) == \E i \in 1..Len(list) : list[i] = x

\* the local variables of get_ignore_list_items; key is unbound (<<>>) until the
\* first loop binds it
IgnoreLocals ==
    [ ignore_items           |-> <<>>,
      added_ignore_labels    |-> <<>>,
      ignorebyfilename_index |-> 0,
      key                    |-> <<>> ]

\* one iteration of "for path in paths" over the ignore-by-filename items
filename_step(loc, path) ==
    LET basename == basename_of(path)
    IN  IF ~InList(basename, loc.added_ignore_labels)
        THEN LET key == IgnoreByFileName \o int_to_str(loc.ignorebyfilename_index)
             IN  [loc EXCEPT
                    !.key = key,
                    !.ignore_items =
                        Append(@, Entry(MenuIgnoreFilenameClass(key, basename, path)))]
        ELSE loc

\* one iteration of "for path in paths" over the ignore-by-extension items
fileext_step(loc, path) ==
    LET extension == get_file_extension(path)
        ext_str   == <<"*">> \o extension
    IN  IF ~InList(ext_str, loc.added_ignore_labels)
        THEN [loc EXCEPT
                !.ignore_items =
                    Append(@, Entry(MenuIgnoreFileExtClass(loc.key, ext_str,
                                                           path, extension)))]
        ELSE loc

RECURSIVE filename_loop(_, _)
filename_loop(loc, ps) ==
    IF ps = <<>> THEN loc
    ELSE filename_loop(filename_step(loc, Head(ps)), Tail(ps))

RECURSIVE fileext_loop(_, _)
fileext_loop(loc, ps) ==
    IF ps = <<>> THEN loc
    ELSE fileext_loop(fileext_step(loc, Head(ps)), Tail(ps))

get_ignore_list_items(ps) ==
    fileext_loop(filename_loop(IgnoreLocals, ps), ps).ignore_items

(***************************************************************************)
(* The ignore-list specification: a selection of distinct paths is given   *)
(* and get_ignore_list_items is called on it.                              *)
(***************************************************************************)
PathSamples ==
    { <<"/","a","/","f",".","c">>,     \* /a/f.c
      <<"/","b","/","f",".","c">>,     \* /b/f.c : the same basename elsewhere
      <<"/","a","/","g",".","c">>,     \* /a/g.c : the same extension
      <<"/","a","/","f">>,             \* /a/f   : no extension
      <<"/","a","/",".","h">> }        \* /a/.h  : a dot file

Selections ==
    { s \in UNION { [1..n -> PathSamples] : n \in 0..MaxPaths } :
        \A i, j \in 1..Len(s) : i # j => s[i] # s[j] }

\* the menu items are not in use
IdleMenu ==
    /\ conditions = [name |-> "conditions", attrs |-> <<>>]
    /\ callbacks = [name |-> "callbacks", attrs |-> <<>>]
    /\ cls = NoClass
    /\ item = NoItem
    /\ shown = NotShown
    /\ magic = NoMagic

\* the conditions and callbacks objects the ignore items are instantiated with:
\* each has or lacks the methods ignore_by_filename and ignore_by_file_extension
IgnoreHelperObjects(objname) ==
    { [name |-> objname, attrs |-> [n \in names |-> "method"]] :
        names \in SUBSET {IGNORE_BY_FILENAME, IGNORE_BY_FILE_EXTENSION} }

InitIgnore ==
    /\ paths \in Selections
    /\ ignore_items = <<>>
    /\ ignore_pc = "start"
    /\ conditions \in IgnoreHelperObjects("conditions")
    /\ callbacks \in IgnoreHelperObjects("callbacks")
    /\ cls = NoClass
    /\ item = NoItem
    /\ shown = NotShown
    /\ magic = NoMagic
    /\ IdleBranch

\* ignore_items = get_ignore_list_items(paths)
GetIgnoreListItems ==
    /\ ignore_pc = "start"
    /\ ignore_items' = get_ignore_list_items(paths)
    /\ ignore_pc' = "done"
    /\ UNCHANGED <<paths, menuVars, branchVars>>

\* item = ignore_items[i][0](conditions, callbacks): a class of the returned
\* list is instantiated, as the menu builder does with every entry
InstantiateIgnoreItem ==
    /\ ignore_pc = "done"
    /\ item = NoItem
    /\ \E i \in 1..Len(ignore_items) :
         /\ cls' = ignore_items[i].class
         /\ item' = __init__(ignore_items[i].class, conditions, callbacks)
    /\ UNCHANGED <<conditions, callbacks, shown, magic, ignoreVars, branchVars>>

NextIgnore == GetIgnoreListItems \/ InstantiateIgnoreItem \/ Show

SpecIgnore == InitIgnore /\ [][NextIgnore]_vars

IsFilenameEntry(e) == e.class.callback_name = IGNORE_BY_FILENAME

IsFileExtEntry(e) == e.class.callback_name = IGNORE_BY_FILE_EXTENSION

\* C4: get_ignore_list_items weeds out duplicate menu items: no two
\* ignore-by-filename entries of the returned list have the same label, and no
\* two ignore-by-extension entries have the same label.
C4_NoDuplicateLabels ==
    ignore_pc = "done" =>
        \A i, j \in 1..Len(ignore_items) :
            /\ i # j
            /\ \/ IsFilenameEntry(ignore_items[i]) /\ IsFilenameEntry(ignore_items[j])
               \/ IsFileExtEntry(ignore_items[i]) /\ IsFileExtEntry(ignore_items[j])
            => ignore_items[i].class.label # ignore_items[j].class.label

\* C5: the entries returned by get_ignore_list_items have pairwise distinct
\* identifiers, each starting with "RabbitVCS::".
C5_UniqueIdentifiers ==
    ignore_pc = "done" =>
        /\ \A i, j \in 1..Len(ignore_items) :
              i # j => ignore_items[i].class.identifier # ignore_items[j].class.identifier
        /\ \A i \in 1..Len(ignore_items) :
              LET id == ignore_items[i].class.identifier
                  prefix == RabbitVCS \o IDENTIFIER_SEPARATOR
              IN  /\ Len(id) >= Len(prefix)
                  /\ SubSeq(id, 1, Len(prefix)) = prefix

\* the positional arguments the instance's activate signal carries
ActivateArguments == star(item.signals["activate"].args)

\* C14: for an ignore-by-filename entry produced for a path p, show() calls
\* the ignore_by_filename condition with p as its single positional argument
\* and the activate signal carries p as the single callback argument; for an
\* ignore-by-extension entry both receive exactly (p, extension of p).
C14_IgnoreArguments ==
    ignore_pc = "done" /\ item # NoItem =>
        /\ cls.callback_name = IGNORE_BY_FILENAME =>
              \E i \in 1..Len(paths) :
                 /\ cls.label = basename_of(paths[i])
                 /\ item.found_callback => ActivateArguments = << Str(paths[i]) >>
                 /\ shown # NotShown /\ item.found_condition =>
                       /\ shown.fn = getattr(conditions, IGNORE_BY_FILENAME)
                       /\ shown.args = << Str(paths[i]) >>
        /\ cls.callback_name = IGNORE_BY_FILE_EXTENSION =>
              \E i \in 1..Len(paths) :
                 LET extension == get_file_extension(paths[i])
                 IN  /\ cls.label = <<"*">> \o extension
                     /\ item.found_callback =>
                           ActivateArguments = << Str(paths[i]), Str(extension) >>
                     /\ shown # NotShown /\ item.found_condition =>
                           /\ shown.fn = getattr(conditions, IGNORE_BY_FILE_EXTENSION)
                           /\ shown.args = << Str(paths[i]), Str(extension) >>

(***************************************************************************)
(* The Git branch manager (ui/branches.py).                                *)
(*                                                                         *)
(* A handler is modelled as an operator from the dialog and repository as  *)
(* they are when it is entered (a record w with one field per variable) to *)
(* what they are when it is left; once w.raised is set, the statements     *)
(* that follow in the handler are skipped, as after a Python exception.    *)
(***************************************************************************)
STATE_ADD == 0

STATE_EDIT == 1

\* gtk.RESPONSE_OK, gtk.RESPONSE_CANCEL, and True / False as Python compares them
RESPONSE_OK == -5

RESPONSE_CANCEL == -6

PyTrue == 1

PyFalse == 0

\* what Confirmation.run() returns
ConfirmResults == {RESPONSE_OK, RESPONSE_CANCEL, PyTrue, PyFalse}

\* self.selected_branch = None
NoBranch == [name |-> "", sha |-> ""]

Self ==
    [ state |-> state, selected_branch |-> selected_branch,
      branch_list |-> branch_list, rows |-> rows, selection |-> selection,
      branch_entry |-> branch_entry, start_point_entry |-> start_point_entry,
      track_checkbox |-> track_checkbox, checkout_active |-> checkout_active,
      checkout_sensitive |-> checkout_sensitive, save_label |-> save_label,
      revision_label |-> revision_label, delete_sensitive |-> delete_sensitive,
      visible |-> visible, detail_label |-> detail_label,
      git_branches |-> git_branches, git_tracking |-> git_tracking,
      calls |-> calls, raised |-> raised ]

\* the dialog and repository become w
Becomes(w) ==
    /\ state' = w.state
    /\ selected_branch' = w.selected_branch
    /\ branch_list' = w.branch_list
    /\ rows' = w.rows
    /\ selection' = w.selection
    /\ branch_entry' = w.branch_entry
    /\ start_point_entry' = w.start_point_entry
    /\ track_checkbox' = w.track_checkbox
    /\ checkout_active' = w.checkout_active
    /\ checkout_sensitive' = w.checkout_sensitive
    /\ save_label' = w.save_label
    /\ revision_label' = w.revision_label
    /\ delete_sensitive' = w.delete_sensitive
    /\ visible' = w.visible
    /\ detail_label' = w.detail_label
    /\ git_branches' = w.git_branches
    /\ git_tracking' = w.git_tracking
    /\ calls' = w.calls
    /\ raised' = w.raised

\* an exception leaves the handler
Raise(w, exception) == [w EXCEPT !.raised = exception]

(***************************************************************************)
(* The Git wrapper object self.git.  A call that changes the repository    *)
(* either succeeds (ok) or raises; it always raises where Git refuses.     *)
(* The repository lists its branches in the order of their names.          *)
(***************************************************************************)
NameOrder == <<"dev", "master">>

NameRank(name) == CHOOSE i \in DOMAIN NameOrder : NameOrder[i] = name

\* the branch records in the order of their names
RECURSIVE SortedBranches(_)
SortedBranches(records) ==
    IF records = {} THEN <<>>
    ELSE LET first == CHOOSE r \in records :
                        \A q \in records : NameRank(r.name) <= NameRank(q.name)
         IN  <<first>> \o SortedBranches(records \ {first})

Range(s) == {s[i] : i \in DOMAIN s}

NoRevision == [value |-> ""]

\* self.git.revision(text)
revision(text) == [value |-> text]

\* a call of a method of self.git with its arguments, and whether it raised
GitCall(op, a, b, rev, failed) ==
    [op |-> op, a |-> a, b |-> b, rev |-> rev, raised |-> failed]

\* the call is made: it is recorded, and its exception, if any, leaves the handler
Called(w, op, a, b, rev, failed) ==
    [w EXCEPT !.calls = Append(@, GitCall(op, a, b, rev, failed)),
              !.raised = IF failed THEN "GitError" ELSE @]

BranchIndex(w, name) ==
    {i \in 1..Len(w.git_branches) : w.git_branches[i].name = name}

HasBranch(w, name) == BranchIndex(w, name) # {}

ShaOf(w, name) == w.git_branches[CHOOSE i \in BranchIndex(w, name) : TRUE].sha

\* the commit HEAD is at: that of the branch it is on, or the commit it is
\* detached at
HeadSha(w) == IF HasBranch(w, w.git_tracking) THEN ShaOf(w, w.git_tracking) ELSE "c1"

\* self.git.is_tracking(name)
is_tracking(w, name) == name = w.git_tracking

\* self.git.branch(name, revision=rev)
git_branch(w, name, rev, ok) ==
    LET failed == ~ok \/ name = ""
        w1  == Called(w, "branch", name, "", rev, failed)
        sha == IF rev.value = "HEAD" THEN HeadSha(w) ELSE rev.value
        new == [name |-> name, sha |-> sha]
    IN  IF failed THEN w1
        ELSE [w1 EXCEPT !.git_branches =
                SortedBranches({r \in Range(@) : r.name # name} \cup {new})]

\* self.git.branch_rename(old, new)
git_branch_rename(w, old, new, ok) ==
    LET failed == ~ok \/ new = "" \/ HasBranch(w, new) \/ ~HasBranch(w, old)
        w1 == Called(w, "branch_rename", old, new, NoRevision, failed)
    IN  IF failed THEN w1
        ELSE [w1 EXCEPT
                !.git_branches =
                    SortedBranches({IF r.name = old THEN [r EXCEPT !.name = new] ELSE r
                                      : r \in Range(@)}),
                !.git_tracking = IF @ = old THEN new ELSE @]

\* self.git.branch_delete(name)
git_branch_delete(w, name, ok) ==
    LET failed == ~ok \/ ~HasBranch(w, name) \/ is_tracking(w, name)
        w1 == Called(w, "branch_delete", name, "", NoRevision, failed)
    IN  IF failed THEN w1
        ELSE [w1 EXCEPT !.git_branches = SelectSeq(@, LAMBDA r : r.name # name)]

\* self.git.checkout(branch_name=name)
git_checkout(w, name, ok) ==
    LET failed == ~ok \/ ~HasBranch(w, name)
        w1 == Called(w, "checkout", name, "", NoRevision, failed)
    IN  IF failed THEN w1
        ELSE [w1 EXCEPT !.git_tracking = name]

\* self.git.branch_list()
git_branch_list(w) == Called(w, "branch_list", "", "", NoRevision, FALSE)

(***************************************************************************)
(* class GitBranchManager                                                  *)
(***************************************************************************)
add_containers ==
    {"branch_name_container", "track_container", "save_container",
     "start_point_container", "checkout_container"}

view_containers ==
    {"branch_name_container", "author_container", "date_container",
     "revision_container", "message_container", "save_container",
     "checkout_container"}

all_containers ==
    {"branch_name_container", "track_container", "author_container",
     "date_container", "revision_container", "message_container",
     "save_container", "start_point_container", "checkout_container"}

\* a variant that shows the containers without hiding the others first
show_containers_no_hide(w, containers) ==
    [w EXCEPT !.visible = @ \cup containers]

show_containers(w, containers) ==
    [w EXCEPT !.visible = (@ \ all_containers) \cup containers]

show_add(w) ==
    LET w1 == [w EXCEPT !.state = STATE_ADD,
                        !.selection = {},
                        !.branch_entry = "",
                        !.save_label = "Add",
                        !.start_point_entry = "HEAD",
                        !.track_checkbox = TRUE,
                        !.checkout_sensitive = TRUE,
                        !.checkout_active = FALSE]
    IN  [show_containers(w1, add_containers) EXCEPT !.detail_label = "Add Branch"]

\* a variant that checks and locks the checkbox for the checked-out branch but
\* leaves it as it is for any other
show_edit_keeps_checkbox(w, branch_name) ==
    LET found == {i \in 1..Len(w.branch_list) : w.branch_list[i].name = branch_name}
        item1 == IF found = {} THEN NoBranch
                 ELSE w.branch_list[CHOOSE i \in found : \A j \in found : i <= j]
        w1    == [w EXCEPT !.state = STATE_EDIT,
                           !.selected_branch = item1,
                           !.save_label = "Save"]
    IN  IF item1 = NoBranch
        THEN Raise(w1, "AttributeError")
        ELSE LET w2 == [w1 EXCEPT
                          !.branch_entry = item1.name,
                          !.revision_label = item1.sha,
                          !.checkout_active = is_tracking(w1, item1.name) \/ @,
                          !.checkout_sensitive = ~is_tracking(w1, item1.name) /\ @]
             IN  [show_containers(w2, view_containers)
                    EXCEPT !.detail_label = "Branch Detail"]

show_edit(w, branch_name) ==
    LET found == {i \in 1..Len(w.branch_list) : w.branch_list[i].name = branch_name}
        item1 == IF found = {} THEN NoBranch
                 ELSE w.branch_list[CHOOSE i \in found : \A j \in found : i <= j]
        w1    == [w EXCEPT !.state = STATE_EDIT,
                           !.selected_branch = item1,
                           !.save_label = "Save"]
    IN  IF item1 = NoBranch
        THEN Raise(w1, "AttributeError")     \* self.selected_branch.name on None
        ELSE LET w2 == [w1 EXCEPT
                          !.branch_entry = item1.name,
                          !.revision_label = item1.sha,
                          !.checkout_active = is_tracking(w1, item1.name),
                          !.checkout_sensitive = ~is_tracking(w1, item1.name)]
             IN  [show_containers(w2, view_containers)
                    EXCEPT !.detail_label = "Branch Detail"]

\* the rows load appends for self.branch_list: [track_str, item.name]
appended_rows(w) ==
    [i \in 1..Len(w.branch_list) |->
        [track |-> IF is_tracking(w, w.branch_list[i].name) THEN "*" ELSE "",
         name  |-> w.branch_list[i].name]]

\* a variant that does not clear the table before it fills it
load_without_clear(w) ==
    LET w2 == git_branch_list(w)
        w3 == [w2 EXCEPT !.branch_list = w2.git_branches]
    IN  [w3 EXCEPT !.rows = @ \o appended_rows(w3)]

\* load(self, callback, ...) up to the call of callback: the table is cleared
\* and filled again from branch_list()
load(w) ==
    LET w1 == [w EXCEPT !.rows = <<>>, !.selection = {}]
        w2 == git_branch_list(w1)
        w3 == [w2 EXCEPT !.branch_list = w2.git_branches]
    IN  [w3 EXCEPT !.rows = @ \o appended_rows(w3)]

\* self.items_treeview.get_selected_row_items(1): the names in the selected rows
RECURSIVE selected_from(_, _)
selected_from(w, i) ==
    IF i > Len(w.rows) THEN <<>>
    ELSE (IF i \in w.selection THEN <<w.rows[i].name>> ELSE <<>>)
            \o selected_from(w, i + 1)

get_selected_row_items(w) == selected_from(w, 1)

on_add_clicked(w) == show_add(w)

\* a variant that takes every answer of the confirmation for a yes
accepted_always(result) == TRUE

\* result == gtk.RESPONSE_OK or result == True
accepted(result) == result = RESPONSE_OK \/ result = PyTrue

\* a variant that catches the exception of a branch_delete and goes on
RECURSIVE delete_loop_goes_on(_, _, _, _)
delete_loop_goes_on(w, selected, i, failAt) ==
    IF i > Len(selected) THEN w
    ELSE delete_loop_goes_on(
            [git_branch_delete(w, selected[i], i # failAt) EXCEPT !.raised = ""],
            selected, i + 1, failAt)

\* "for branch in selected: self.git.branch_delete(branch)", from the i-th on;
\* the failAt-th call is one that raises
RECURSIVE delete_loop(_, _, _, _)
delete_loop(w, selected, i, failAt) ==
    IF i > Len(selected) \/ w.raised # "" THEN w
    ELSE delete_loop(git_branch_delete(w, selected[i], i # failAt),
                     selected, i + 1, failAt)

on_delete_clicked(w, result, failAt) ==
    LET selected == get_selected_row_items(w)
    IN  IF accepted(result)
        THEN LET w1 == delete_loop(w, selected, 1, failAt)
             IN  IF w1.raised # "" THEN w1 ELSE show_add(load(w1))
        ELSE w

\* on_save_clicked, the branch "if self.state == STATE_ADD"
save_add(w, ok) ==
    LET branch_name == w.branch_entry
        start_point == revision(w.start_point_entry)
    IN  git_branch(w, branch_name, start_point, ok)

\* a variant that renames whether or not the name was changed
save_edit_always_renames(w, ok) ==
    IF w.selected_branch = NoBranch THEN Raise(w, "AttributeError")
    ELSE git_branch_rename(w, w.selected_branch.name, w.branch_entry, ok)

\* on_save_clicked, the branch "elif self.state == STATE_EDIT"
save_edit(w, ok) ==
    LET branch_name == w.branch_entry
    IN  IF w.selected_branch = NoBranch
        THEN Raise(w, "AttributeError")      \* self.selected_branch.name on None
        ELSE IF w.selected_branch.name # branch_name
        THEN git_branch_rename(w, w.selected_branch.name, branch_name, ok)
        ELSE w

\* a variant that checks the branch out before it creates or renames it
on_save_clicked_checkout_first(w, ok1, ok2) ==
    LET branch_name == w.branch_entry
        w1 == IF w.checkout_active THEN git_checkout(w, branch_name, ok2) ELSE w
        w2 == IF w1.raised # "" THEN w1
              ELSE IF w1.state = STATE_ADD THEN save_add(w1, ok1)
              ELSE IF w1.state = STATE_EDIT THEN save_edit(w1, ok1)
              ELSE w1
    IN  IF w2.raised # "" THEN w2 ELSE show_edit(load(w2), branch_name)

on_save_clicked(w, ok1, ok2) ==
    LET branch_name == w.branch_entry
        w1 == IF w.state = STATE_ADD THEN save_add(w, ok1)
              ELSE IF w.state = STATE_EDIT THEN save_edit(w, ok1)
              ELSE w
        w2 == IF w1.raised # "" THEN w1
              ELSE IF w1.checkout_active THEN git_checkout(w1, branch_name, ok2)
              ELSE w1
    IN  IF w2.raised # "" THEN w2 ELSE show_edit(load(w2), branch_name)

\* a variant that opens the first selected branch however many are selected
on_treeview_event_edits_first(w) ==
    LET selected == get_selected_row_items(w)
    IN  IF Len(selected) > 0
        THEN LET w1 == show_edit(w, selected[1])
             IN  IF w1.raised # "" THEN w1 ELSE [w1 EXCEPT !.delete_sensitive = TRUE]
        ELSE show_add(w)

on_treeview_event(w) ==
    LET selected == get_selected_row_items(w)
    IN  IF Len(selected) > 0
        THEN LET w1 == IF Len(selected) = 1 THEN show_edit(w, selected[1]) ELSE w
             IN  IF w1.raised # "" THEN w1 ELSE [w1 EXCEPT !.delete_sensitive = TRUE]
        ELSE show_add(w)

HandledKeys == {"Up", "Down", "Return"}

on_treeview_key_event(w, keyval_name) ==
    IF keyval_name \in HandledKeys THEN on_treeview_event(w) ELSE w

on_treeview_mouse_event(w) == on_treeview_event(w)

on_log_dialog_closed(w, data) ==
    IF data # "" THEN [w EXCEPT !.start_point_entry = data] ELSE w

(***************************************************************************)
(* The branch-manager specification: the dialog is constructed on a        *)
(* repository and then handles the user's events one at a time (the GTK    *)
(* main loop is single-threaded; an exception that leaves a handler is     *)
(* reported and the loop goes on).                                         *)
(***************************************************************************)
\* what the user types into the name field
EntryTexts == {"", "dev"}

StartPoints == {"HEAD", "c1"}

\* keys pressed on the list: "Down" and "End" move the selection, "Return" leaves it
Keys == {"Down", "Return", "End"}

\* the repositories the dialog is opened on; in the last one HEAD is detached
\* (on no branch)
InitialRepos ==
    { [branches |-> << [name |-> "master", sha |-> "c1"] >>,
       tracking |-> "master"],
      [branches |-> << [name |-> "dev", sha |-> "c1"],
                       [name |-> "master", sha |-> "c1"] >>,
       tracking |-> "master"],
      [branches |-> << [name |-> "dev", sha |-> "c1"],
                       [name |-> "master", sha |-> "c1"] >>,
       tracking |-> "dev"],
      [branches |-> << [name |-> "dev", sha |-> "c1"],
                       [name |-> "master", sha |-> "c1"] >>,
       tracking |-> ""] }

\* the fields and widgets as GitBranchManager.__init__ has them before it calls
\* self.load(self.show_add); delete_shown is the glade file's setting of the
\* "delete" widget
Constructed(repo, delete_shown) ==
    [ state |-> STATE_ADD, selected_branch |-> NoBranch,
      branch_list |-> <<>>, rows |-> <<>>, selection |-> {},
      branch_entry |-> "", start_point_entry |-> "",
      track_checkbox |-> FALSE, checkout_active |-> FALSE,
      checkout_sensitive |-> TRUE, save_label |-> "Save",
      revision_label |-> "", delete_sensitive |-> delete_shown,
      visible |-> {}, detail_label |-> "",
      git_branches |-> repo.branches, git_tracking |-> repo.tracking,
      calls |-> <<>>, raised |-> "" ]

\* a handler that reads nothing of the dialog
Event(name) ==
    [ name |-> name, mode |-> STATE_ADD, text |-> "", start |-> "", old |-> "",
      checkout |-> FALSE, selected |-> <<>>, confirm |-> PyFalse, key |-> "" ]

\* on_save_clicked, and what it read of the dialog w when it was entered
SaveEvent(w) ==
    [ Event("on_save_clicked") EXCEPT
        !.mode     = w.state,
        !.text     = w.branch_entry,
        !.start    = IF w.state = STATE_ADD THEN w.start_point_entry ELSE "",
        !.old      = IF w.state = STATE_EDIT THEN w.selected_branch.name ELSE "",
        !.checkout = w.checkout_active ]

\* a handler that read the selected rows (and the answer of a confirmation)
SelectionEvent(name, w, confirm) ==
    [ Event(name) EXCEPT !.selected = get_selected_row_items(w),
                         !.confirm = confirm ]

\* the dialog as a handler finds it: nothing called, nothing raised yet
Entered == [Self EXCEPT !.calls = <<>>, !.raised = ""]

\* GitBranchManager(path)
InitBranch ==
    /\ \E repo \in InitialRepos, delete_shown \in BOOLEAN :
         LET w0 == Constructed(repo, delete_shown)
             w  == show_add(load(w0))
         IN  /\ state = w.state
             /\ selected_branch = w.selected_branch
             /\ branch_list = w.branch_list
             /\ rows = w.rows
             /\ selection = w.selection
             /\ branch_entry = w.branch_entry
             /\ start_point_entry = w.start_point_entry
             /\ track_checkbox = w.track_checkbox
             /\ checkout_active = w.checkout_active
             /\ checkout_sensitive = w.checkout_sensitive
             /\ save_label = w.save_label
             /\ revision_label = w.revision_label
             /\ delete_sensitive = w.delete_sensitive
             /\ visible = w.visible
             /\ detail_label = w.detail_label
             /\ git_branches = w.git_branches
             /\ git_tracking = w.git_tracking
             /\ calls = w.calls
             /\ raised = w.raised
             /\ ev = Event("__init__")
    /\ IdleMenu
    /\ IdleIgnore

\* the "add" button is clicked
AddClicked ==
    /\ Becomes(on_add_clicked(Entered))
    /\ ev' = Event("on_add_clicked")
    /\ UNCHANGED <<menuVars, ignoreVars>>

\* the "delete" button is clicked and the confirmation dialog is answered
DeleteClicked ==
    /\ \E result \in ConfirmResults :
         \E failAt \in 0..(IF accepted(result)
                           THEN Len(get_selected_row_items(Entered)) ELSE 0) :
            /\ Becomes(on_delete_clicked(Entered, result, failAt))
            /\ ev' = SelectionEvent("on_delete_clicked", Entered, result)
    /\ UNCHANGED <<menuVars, ignoreVars>>

\* the save button is clicked
SaveClicked ==
    /\ \E ok1, ok2 \in BOOLEAN :
         Becomes(on_save_clicked(Entered, ok1, ok2))
    /\ ev' = SaveEvent(Entered)
    /\ UNCHANGED <<menuVars, ignoreVars>>

\* a mouse event on the list: the selection is now sel
TreeviewMouseEvent ==
    /\ \E sel \in SUBSET (1..Len(rows)) :
         LET w == [Entered EXCEPT !.selection = sel]
         IN  /\ Becomes(on_treeview_mouse_event(w))
             /\ ev' = SelectionEvent("on_treeview_mouse_event", w, PyFalse)
    /\ UNCHANGED <<menuVars, ignoreVars>>

\* a key event on the list: the selection is now sel
TreeviewKeyEvent ==
    /\ \E keyval_name \in Keys, sel \in SUBSET (1..Len(rows)) :
         LET w == [Entered EXCEPT !.selection = sel]
         IN  /\ keyval_name = "Return" => sel = selection
             /\ Becomes(on_treeview_key_event(w, keyval_name))
             /\ ev' = [SelectionEvent("on_treeview_key_event", w, PyFalse)
                         EXCEPT !.key = keyval_name]
    /\ UNCHANGED <<menuVars, ignoreVars>>

\* the log dialog opened from the start-point line is closed with data
LogDialogClosed ==
    /\ "start_point_container" \in visible
    /\ \E data \in {"", "c1"} :
         Becomes(on_log_dialog_closed(Entered, data))
    /\ ev' = Event("on_log_dialog_closed")
    /\ UNCHANGED <<menuVars, ignoreVars>>

\* the user edits the name field
TypeBranchName ==
    /\ "branch_name_container" \in visible
    /\ \E text \in EntryTexts : branch_entry' = text
    /\ calls' = <<>>
    /\ raised' = ""
    /\ ev' = Event("edit branch_entry")
    /\ UNCHANGED <<state, selected_branch, branch_list, rows, selection,
                   start_point_entry, track_checkbox, checkout_active,
                   checkout_sensitive, save_label, revision_label, delete_sensitive,
                   visible, detail_label, git_branches, git_tracking,
                   menuVars, ignoreVars>>

\* the user edits the start-point field
TypeStartPoint ==
    /\ "start_point_container" \in visible
    /\ \E text \in StartPoints : start_point_entry' = text
    /\ calls' = <<>>
    /\ raised' = ""
    /\ ev' = Event("edit start_point_entry")
    /\ UNCHANGED <<state, selected_branch, branch_list, rows, selection,
                   branch_entry, track_checkbox, checkout_active,
                   checkout_sensitive, save_label, revision_label, delete_sensitive,
                   visible, detail_label, git_branches, git_tracking,
                   menuVars, ignoreVars>>

\* the user clicks the "Set as active branch" checkbox
ToggleCheckout ==
    /\ "checkout_container" \in visible
    /\ checkout_sensitive
    /\ checkout_active' = ~checkout_active
    /\ calls' = <<>>
    /\ raised' = ""
    /\ ev' = Event("toggle checkout_checkbox")
    /\ UNCHANGED <<state, selected_branch, branch_list, rows, selection,
                   branch_entry, start_point_entry, track_checkbox,
                   checkout_sensitive, save_label, revision_label, delete_sensitive,
                   visible, detail_label, git_branches, git_tracking,
                   menuVars, ignoreVars>>

NextBranch ==
    \/ AddClicked
    \/ DeleteClicked
    \/ SaveClicked
    \/ TreeviewMouseEvent
    \/ TreeviewKeyEvent
    \/ LogDialogClosed
    \/ TypeBranchName
    \/ TypeStartPoint
    \/ ToggleCheckout

SpecBranch == InitBranch /\ [][NextBranch]_vars

(***************************************************************************)
(* Claims about the branch manager                                         *)
(***************************************************************************)
IsCall(c, op, a, b, rev) == c.op = op /\ c.a = a /\ c.b = b /\ c.rev = rev

\* the calls of the last handler that create or rename a branch
Mutations == SelectSeq(calls, LAMBDA c : c.op \in {"branch", "branch_rename"})

\* the confirmation was answered with gtk.RESPONSE_OK (-5) or True (1)
Confirmed(result) == result \in {-5, 1}

\* the rows a load makes of the repository as it is
RowsOfRepository ==
    [i \in 1..Len(git_branches) |->
        [track |-> IF git_branches[i].name = git_tracking THEN "*" ELSE "",
         name  |-> git_branches[i].name]]

\* C7: the mode is always add or edit, it is add right after construction, and
\* after any sequence of user events the visible detail containers are exactly
\* add_containers in add mode and exactly view_containers in edit mode.
C7_ModeAndContainers ==
    ev.name # "" =>
        /\ state \in {STATE_ADD, STATE_EDIT}
        /\ ev.name = "__init__" => state = STATE_ADD
        /\ state = STATE_ADD => visible = add_containers
        /\ state = STATE_EDIT => visible = view_containers

\* a save in add mode has created the branch and left the dialog in edit mode
C7_Witness ==
    /\ ev.name = "on_save_clicked"
    /\ ev.mode = STATE_ADD
    /\ raised = ""
    /\ state = STATE_EDIT
    /\ visible = view_containers

\* C8: on_save_clicked in add mode calls branch(entered name, revision of the
\* start-point field) once and never branch_rename; in edit mode it calls
\* branch_rename(old name, entered name) once if the entered name differs from
\* the selected branch's name, and neither branch nor branch_rename otherwise.
C8_SaveMutation ==
    ev.name = "on_save_clicked" =>
        IF ev.mode = STATE_ADD
        THEN /\ Len(Mutations) = 1
             /\ IsCall(Mutations[1], "branch", ev.text, "", [value |-> ev.start])
        ELSE IF ev.old # "" /\ ev.old # ev.text
        THEN /\ Len(Mutations) = 1
             /\ IsCall(Mutations[1], "branch_rename", ev.old, ev.text, NoRevision)
        ELSE Mutations = <<>>

\* a save in edit mode that renamed the branch, and returned
C8_Witness ==
    /\ ev.name = "on_save_clicked"
    /\ ev.mode = STATE_EDIT
    /\ ev.old = "master"
    /\ ev.text = "dev"
    /\ raised = ""
    /\ Len(calls) > 1
    /\ calls[1].op = "branch_rename"

\* what C9 says of one step of on_delete_clicked, whatever the calls do
DeleteStepAsStated ==
    IF Confirmed(ev'.confirm)
    THEN /\ Len(calls') = Len(ev'.selected) + 1
         /\ \A i \in 1..Len(ev'.selected) :
               IsCall(calls'[i], "branch_delete", ev'.selected[i], "", NoRevision)
         /\ calls'[Len(calls')].op = "branch_list"
         /\ rows' = RowsOfRepository'
         /\ state' = STATE_ADD
    ELSE /\ calls' = <<>>
         /\ UNCHANGED <<branch_list, rows, selection, state, git_branches, git_tracking>>

C10_NothingAfterFailure ==
    \A i \in 1..Len(calls) :
        calls[i].raised =>
            /\ i = Len(calls)
            /\ raised = "GitError"
            /\ \A j \in 1..Len(calls) :
                  j # i => ~IsCall(calls[j], calls[i].op, calls[i].a,
                                   calls[i].b, calls[i].rev)
            /\ ev.name = "on_delete_clicked" =>
                  /\ i <= Len(ev.selected)
                  /\ \A j \in 1..i :
                        IsCall(calls[j], "branch_delete", ev.selected[j], "", NoRevision)
            /\ ev.name = "on_save_clicked" /\ calls[i].op # "checkout" => i = 1

\* two branches selected, the first deleted, the second delete raised: no reload
C10_Witness ==
    /\ ev.name = "on_delete_clicked"
    /\ Len(ev.selected) = 2
    /\ Len(calls) = 2
    /\ ~calls[1].raised
    /\ calls[2].raised
    /\ raised = "GitError"
    /\ Len(rows) = 2
    /\ Len(git_branches) = 1

\* the handler that ran last has completed a load
Loaded == \E i \in 1..Len(calls) : calls[i].op = "branch_list"

\* C11: after every completed load (at construction, after a save, after a
\* confirmed delete) the rows of the list are exactly the branches branch_list
\* returned, one row per branch in the same order, the first column "*" if and
\* only if is_tracking(name); no row of an earlier load remains.
C11_RowsAfterLoad ==
    Loaded =>
        /\ branch_list = git_branches
        /\ Len(rows) = Len(branch_list)
        /\ \A i \in 1..Len(rows) :
              /\ rows[i].name = branch_list[i].name
              /\ rows[i].track \in {"*", ""}
              /\ rows[i].track = "*" <=> rows[i].name = git_tracking

\* a save in add mode on a one-branch repository has reloaded a two-row list
C11_Witness ==
    /\ ev.name = "on_save_clicked"
    /\ ev.mode = STATE_ADD
    /\ Loaded
    /\ raised = ""
    /\ rows = << [track |-> "", name |-> "dev"], [track |-> "*", name |-> "master"] >>

\* the mode and the detail fields of the dialog
DetailFields ==
    <<state, selected_branch, branch_entry, start_point_entry, track_checkbox,
      checkout_active, checkout_sensitive, save_label, revision_label, visible,
      detail_label>>

\* what C12 says of one step of a handler that found ev'.selected selected
SelectionStepAsStated ==
    LET selected == ev'.selected
    IN  /\ Len(selected) = 1 =>
              /\ state' = STATE_EDIT
              /\ selected_branch'.name = selected[1]
              /\ branch_entry' = selected[1]
              /\ visible' = view_containers
        /\ Len(selected) = 0 =>
              /\ state' = STATE_ADD
              /\ branch_entry' = ""
              /\ visible' = add_containers
        /\ Len(selected) > 1 =>
              /\ UNCHANGED DetailFields
              /\ delete_sensitive'

\* C12 as stated: on a list selection event (a mouse event or a key event on
\* the list) exactly one selected row puts the dialog in edit mode showing that
\* branch, zero selected rows put it in add mode, and more than one leaves the
\* mode, the selected branch and the detail fields unchanged and enables the
\* delete button.
C12_AsStated ==
    [][ev'.name \in {"on_treeview_mouse_event", "on_treeview_key_event"}
          => SelectionStepAsStated]_vars

\* C12 amended: as stated for a mouse event and for a key event of the keys Up,
\* Down and Return; a key event of any other key changes nothing of the dialog,
\* whatever is selected.
C12_ModeFollowsSelection ==
    [][/\ ev'.name = "on_treeview_mouse_event"
            \/ (ev'.name = "on_treeview_key_event" /\ ev'.key \in {"Up", "Down", "Return"})
          => SelectionStepAsStated
       /\ ev'.name = "on_treeview_key_event" /\ ev'.key \notin {"Up", "Down", "Return"}
          => UNCHANGED <<DetailFields, delete_sensitive, branch_list, rows>>]_vars

\* two rows were selected while the dialog showed a branch: it still shows it
C12_Witness ==
    /\ ev.name = "on_treeview_mouse_event"
    /\ Len(ev.selected) = 2
    /\ state = STATE_EDIT
    /\ selected_branch.name = "master"
    /\ delete_sensitive

\* the positions in the last handler's calls of the calls of the given methods
CallsOf(ops) == {i \in 1..Len(calls) : calls[i].op \in ops}

\* the order C13 states: create or rename, then checkout of the entered text,
\* then the reload
SaveCallOrder ==
    /\ \A i \in CallsOf({"checkout"}) :
          /\ IsCall(calls[i], "checkout", ev.text, "", NoRevision)
          /\ \A j \in CallsOf({"branch", "branch_rename"}) : j < i
    /\ \A k \in CallsOf({"branch_list"}) :
          \A j \in CallsOf({"branch", "branch_rename", "checkout"}) : j < k
    /\ Cardinality(CallsOf({"checkout"})) <= 1
    /\ Cardinality(CallsOf({"branch_list"})) <= 1

\* C13 as stated: in on_save_clicked the checkout call is made if and only if
\* the checkbox is active, after the create or rename call, naming the branch
\* by the text entered at save time; the list reload happens after both.
C13_AsStated ==
    ev.name = "on_save_clicked" =>
        /\ CallsOf({"checkout"}) # {} <=> ev.checkout
        /\ CallsOf({"branch_list"}) # {}
        /\ SaveCallOrder

\* on_save_clicked got as far as its checkout statement: neither the
\* comparison with selected_branch.name nor the create or rename call raised
ReachedCheckout ==
    /\ ~(ev.mode = STATE_EDIT /\ ev.old = "")
    /\ \A j \in CallsOf({"branch", "branch_rename"}) : ~calls[j].raised

\* C13 amended: if nothing before it in the handler raised, the checkout call
\* is made if and only if the checkbox is active; it is never made before the
\* create or rename call and names the branch by the text entered at save time;
\* if no call raised the list reload follows, after both.
C13_CheckoutAfterMutation ==
    ev.name = "on_save_clicked" =>
        /\ CallsOf({"checkout"}) # {} <=> (ev.checkout /\ ReachedCheckout)
        /\ CallsOf({"branch_list"}) # {} <=> (\A j \in 1..Len(calls) : ~calls[j].raised)
                                              /\ ReachedCheckout
        /\ SaveCallOrder

\* the checked-out branch was renamed and saved: rename, checkout, reload
C13_Witness ==
    /\ ev.name = "on_save_clicked"
    /\ ev.old = "master"
    /\ ev.checkout
    /\ Len(calls) = 3
    /\ calls[1].op = "branch_rename"
    /\ IsCall(calls[2], "checkout", "dev", "", NoRevision)
    /\ calls[3].op = "branch_list"
    /\ raised = ""

\* show_edit ran in the handler that ran last
ShowEditRan ==
    \/ ev.name = "on_save_clicked" /\ Loaded
    \/ /\ ev.name = "on_treeview_mouse_event"
          \/ (ev.name = "on_treeview_key_event" /\ ev.key \in {"Up", "Down", "Return"})
       /\ Len(ev.selected) = 1

\* C15: whenever the dialog is in edit mode after a handler has finished,
\* selected_branch is set and is a record of branch_list, and when the handler
\* has opened a branch in edit mode (a selection of one row, or a save and its
\* reload) its name is the name shown in the name field; edit mode is never
\* entered with selected_branch unset.
C15_EditHasBranch ==
    state = STATE_EDIT =>
        /\ selected_branch # NoBranch
        /\ \E i \in 1..Len(branch_list) : branch_list[i] = selected_branch
        /\ ShowEditRan => selected_branch.name = branch_entry

\* show_add ran last in the handler that ran last
ShowAddRan ==
    \/ ev.name \in {"__init__", "on_add_clicked"}
    \/ ev.name = "on_delete_clicked" /\ Loaded
    \/ /\ ev.name = "on_treeview_mouse_event"
          \/ (ev.name = "on_treeview_key_event" /\ ev.key \in {"Up", "Down", "Return"})
       /\ Len(ev.selected) = 0

\* C16: on every entry into edit mode for a branch b the checkout checkbox is
\* checked and insensitive if is_tracking(b), unchecked and sensitive
\* otherwise; on entry into add mode it is unchecked and sensitive: its state
\* depends only on the mode entered last, never on the one before.
C16_CheckboxFollowsMode ==
    /\ ShowEditRan /\ raised = "" =>
          /\ state = STATE_EDIT
          /\ checkout_active <=> selected_branch.name = git_tracking
          /\ checkout_sensitive <=> selected_branch.name # git_tracking
    /\ ShowAddRan =>
          /\ state = STATE_ADD
          /\ ~checkout_active
          /\ checkout_sensitive

\* a branch that is not checked out is opened while another one is checked out
C16_Witness ==
    /\ ev.name = "on_treeview_mouse_event"
    /\ ev.selected = <<"dev">>
    /\ state = STATE_EDIT
    /\ git_tracking = "master"
    /\ ~checkout_active
    /\ checkout_sensitive

====
